---- MODULE Spec2Model ----
(***************************************************************************)
(* A model of vimb's src/util.c: the deduplicating list loader             *)
(* (util_file_to_unique_list), the path resolver (util_build_path), the    *)
(* temporary file writer (util_create_tmp_file) and the case-insensitive   *)
(* search (util_strcasestr).  C strings are sequences of one-character     *)
(* strings.                                                                *)
(***************************************************************************)
EXTENDS Integers, Sequences, FiniteSets, TLC

\* ---------------------------------------------------------------- bounds
\* longest file content, in characters
MaxLen == 5
\* longest path argument of util_build_path, in characters
MaxPathLen == 4
\* longest content handed to util_create_tmp_file, in characters
MaxContent == 3
\* longest haystack and longest needle of util_strcasestr, in characters
MaxStr == 3

\* ------------------------------------------------------------ characters
NL == "\n"
SP == " "
Letters == {"a", "b"}
FileChars == Letters \cup {SP, NL}

\* every sequence over S of length at most n
RECURSIVE StringsUpTo(_, _)
StringsUpTo(S, n) ==
    IF n = 0 THEN {<<>>}
    ELSE LET shorter == StringsUpTo(S, n - 1)
         IN  shorter \cup {Append(s, c) : s \in {t \in shorter : Len(t) = n - 1}, c \in S}

\* g_ascii_isspace, as g_strstrip uses it
IsSpace(c) == c \in {SP, NL, "\t", "\r"}

\* ------------------------------------------------------- library helpers
\* g_strsplit(content, "\n", -1): the empty string gives the empty vector,
\* any other string gives one piece more than it has delimiters
RECURSIVE SplitFrom(_, _)
SplitFrom(s, cur) ==
    IF s = <<>> THEN <<cur>>
    ELSE IF Head(s) = NL THEN <<cur>> \o SplitFrom(Tail(s), <<>>)
    ELSE SplitFrom(Tail(s), Append(cur, Head(s)))

StrSplit(content) == IF content = <<>> THEN <<>> ELSE SplitFrom(content, <<>>)

\* g_strchug: drop leading whitespace
RECURSIVE StrChug(_)
StrChug(s) == IF s # <<>> /\ IsSpace(Head(s)) THEN StrChug(Tail(s)) ELSE s

\* g_strchomp: drop trailing whitespace
RECURSIVE StrChomp(_)
StrChomp(s) ==
    IF s # <<>> /\ IsSpace(s[Len(s)]) THEN StrChomp(SubSeq(s, 1, Len(s) - 1)) ELSE s

\* g_strstrip(line)
StrStrip(s) == StrChomp(StrChug(s))

\* a blank test that lets every line through
NeverBlank(line) == FALSE

\* *line == '\0'
IsBlank(line) == line = <<>>

\* a reverse that leaves the list as it is
ListReverseForgotten(l) == l

\* g_list_reverse
ListReverse(l) == [k \in 1..Len(l) |-> l[Len(l) + 1 - k]]

\* g_list_prepend
ListPrepend(l, v) == <<v>> \o l

\* g_list_delete_link of the k-th link
ListDeleteLink(l, k) == SubSeq(l, 1, k - 1) \o SubSeq(l, k + 1, Len(l))

\* --------------------------------------------------------------- state
VARIABLES
    \* the file named by filename
    fileKind, fileContent,
    \* the caller's callbacks: the keys func rejects, the pairs unique_func
    \* reports as equal
    nullKeys, eq,
    \* util_file_to_unique_list's locals
    lpc, lines, linesHeld, len, i, gl,
    \* observations: diagnostics printed, calls of func, entries given to
    \* free_func, the call number and the data the previous call returned
    errLog, calls, freed, run, prevData

loadVars == <<fileKind, fileContent, nullKeys, eq, lpc, lines, linesHeld, len, i, gl,
              errLog, calls, freed, run, prevData>>

VARIABLES
    \* util_build_path's arguments: path, and dir (dirNull: dir == NULL)
    path, dir, dirNull,
    \* the environment: $HOME (homeSet: it is set), what g_get_home_dir() and
    \* g_get_current_dir() return, whether the system refuses to create
    \* directories, and the file system now and at the call
    envHOME, homeSet, gHome, cwd, denied, fs, fs0,
    \* util_build_path's position, its buffer and what it returned
    ppc, fullPath, ret

pathVars == <<path, dir, dirNull, envHOME, homeSet, gHome, cwd, denied, fs, fs0,
              ppc, fullPath, ret>>

VARIABLES
    \* util_create_tmp_file's argument, the state of the caller's *file
    \* ("null" or "garbage" before the call, "valid", "freed") and the name
    \* g_file_open_tmp stored in it
    content, file, tmpName,
    \* the descriptor, whether it is open, what write() returned, the files
    \* of the temporary directory, the position and the returned value
    fp, fdOpen, bytes, tmpFiles, tpc, tret

tmpVars == <<content, file, tmpName, fp, fdOpen, bytes, tmpFiles, tpc, tret>>

VARIABLES
    \* util_strcasestr's arguments and locals (si, sj: its i and j)
    haystack, needle, nlen, hlen, si, sj,
    \* the position, the returned offset (-1: NULL) and the haystack indices read
    spc, found, reads

searchVars == <<haystack, needle, nlen, hlen, si, sj, spc, found, reads>>

vars == <<loadVars, pathVars, tmpVars, searchVars>>

\* ------------------------------------------------------------ callbacks
\* the key of a line: the text unique_func compares
Key(line) == IF line = <<>> THEN "" ELSE Head(line)

\* func(line) returns NULL for the lines whose key the caller's parser rejects
ParseIsNull(line) == Key(line) \in nullKeys

\* the object func allocates for the line at index idx
ParseValue(line, idx) == [id |-> idx, data |-> line]

\* unique_func(a, b): 0 means equal
unique_func(a, b) == IF <<Key(a.data), Key(b.data)>> \in eq THEN 0 ELSE 1

\* a scan that never finds the value in the list
FirstEqualNever(list, value) == 0

\* the scan of lines 123-129: the position of the first link l of the list
\* with !unique_func(value, l->data), or 0
FirstEqual(list, value) ==
    LET hits == {k \in 1..Len(list) : unique_func(value, list[k]) = 0}
    IN  IF hits = {} THEN 0 ELSE CHOOSE k \in hits : \A m \in hits : k <= m

\* ----------------------------------------------------------- operations
\* lines 104-112, with util_get_lines and util_get_file_contents
Enter ==
    /\ lpc = "call"
    /\ LET readable == fileKind = "regular"
           split == IF readable THEN StrSplit(fileContent) ELSE <<>>
       IN  /\ errLog' = ~readable
           /\ lines' = split
           /\ linesHeld' = readable
           /\ len' = Len(split)
           /\ lpc' = IF Len(split) = 0 THEN "done" ELSE "loop"
    /\ i' = 0
    /\ gl' = <<>>
    /\ UNCHANGED <<fileKind, fileContent, nullKeys, eq, calls, freed, run, prevData>>
    /\ UNCHANGED <<pathVars, tmpVars, searchVars>>

\* one pass of the loop body, lines 114-132
Iterate ==
    /\ lpc = "loop"
    /\ i < len
    /\ LET line == StrStrip(lines[i + 1])
           value == ParseValue(line, i)
           k == FirstEqual(gl, value)
       IN  /\ lines' = [lines EXCEPT ![i + 1] = line]
           /\ IF IsBlank(line)
              THEN UNCHANGED <<calls, gl, freed>>
              ELSE /\ calls' = Append(calls, <<i, line>>)
                   /\ IF ParseIsNull(line)
                      THEN UNCHANGED <<gl, freed>>
                      ELSE IF k # 0
                           THEN /\ freed' = freed \cup {gl[k].id}
                                /\ gl' = ListPrepend(ListDeleteLink(gl, k), value)
                           ELSE /\ freed' = freed
                                /\ gl' = ListPrepend(gl, value)
    /\ i' = i + 1
    /\ UNCHANGED <<fileKind, fileContent, nullKeys, eq, lpc, linesHeld, len, errLog,
                   run, prevData>>
    /\ UNCHANGED <<pathVars, tmpVars, searchVars>>

\* lines 133-136
Leave ==
    /\ lpc = "loop"
    /\ i = len
    /\ linesHeld' = FALSE
    /\ lines' = <<>>
    /\ gl' = ListReverse(gl)
    /\ lpc' = "done"
    /\ UNCHANGED <<fileKind, fileContent, nullKeys, eq, len, i, errLog, calls, freed,
                   run, prevData>>
    /\ UNCHANGED <<pathVars, tmpVars, searchVars>>

\* the file content with the text ins put in before position p + 1
InsertAt(c, p, ins) == SubSeq(c, 1, p) \o ins \o SubSeq(c, p + 1, Len(c))

\* the positions at which a line of c starts
LineStarts(c) == {p \in 0..Len(c) : p = 0 \/ c[p] = NL}

\* the file with a final newline added, or with an empty or whitespace-only
\* line put in before one of its lines
BlankVariants(c) ==
    {Append(c, NL)} \cup {InsertAt(c, p, ins) : p \in LineStarts(c), ins \in {<<NL>>, <<SP, NL>>}}

\* the list as the caller sees it: the data of its entries, in order
Data(list) == [k \in 1..Len(list) |-> list[k].data]

\* the caller edits the file's blank lines and calls util_file_to_unique_list
\* again (line 101), with the same callbacks
EditAndReload ==
    /\ lpc = "done"
    /\ run = 1
    /\ fileKind = "regular"
    /\ \E c \in BlankVariants(fileContent) : fileContent' = c
    /\ prevData' = Data(gl)
    /\ run' = 2
    /\ lpc' = "call"
    /\ lines' = <<>>
    /\ linesHeld' = FALSE
    /\ len' = 0
    /\ i' = 0
    /\ gl' = <<>>
    /\ errLog' = FALSE
    /\ calls' = <<>>
    /\ freed' = {}
    /\ UNCHANGED <<fileKind, nullKeys, eq>>
    /\ UNCHANGED <<pathVars, tmpVars, searchVars>>

\* the callbacks a caller may pass
Relations == SUBSET (Letters \X Letters)
NullKeySets == {{}, {"b"}}

InitLoadLocals ==
    /\ lpc = "call"
    /\ lines = <<>>
    /\ linesHeld = FALSE
    /\ len = 0
    /\ i = 0
    /\ gl = <<>>
    /\ errLog = FALSE
    /\ calls = <<>>
    /\ freed = {}
    /\ run = 1
    /\ prevData = <<>>

\* the loader at rest, for the specifications of the other functions
IdleLoad ==
    /\ fileKind = "missing"
    /\ fileContent = <<>>
    /\ nullKeys = {}
    /\ eq = {}
    /\ InitLoadLocals

\* ------------------------------------------------------ util_build_path
SLASH == "/"
TILDE == "~"
NUL == "\\0"
PathChars == {SLASH, TILDE, "a"}

\* mode 0700 of line 242, and mode 0755 of line 54
Mode0700 == 448
Mode0755 == 493

\* the position of the last '/' of s, or 0: strrchr(s, '/')
StrRChr(s) ==
    LET hits == {k \in 1..Len(s) : s[k] = SLASH}
    IN  IF hits = {} THEN 0 ELSE CHOOSE k \in hits : \A m \in hits : m <= k

\* the C string held in a buffer: the characters before its first NUL
RECURSIVE CStr(_)
CStr(buf) ==
    IF buf = <<>> \/ Head(buf) = NUL THEN <<>> ELSE <<Head(buf)>> \o CStr(Tail(buf))

\* the names between the '/' of a path string, empty names dropped
RECURSIVE NamesFrom(_, _)
NamesFrom(s, cur) ==
    LET done == IF cur = <<>> THEN <<>> ELSE <<cur>>
    IN  IF s = <<>> THEN done
        ELSE IF Head(s) = SLASH THEN done \o NamesFrom(Tail(s), <<>>)
        ELSE NamesFrom(Tail(s), Append(cur, Head(s)))

Names(s) == NamesFrom(s, <<>>)

IsAbsolute(s) == s # <<>> /\ Head(s) = SLASH

\* the node a path string names: from the root when it is absolute, from the
\* current directory otherwise
Node(s) == IF IsAbsolute(s) THEN Names(s) ELSE Names(cwd) \o Names(s)

KindAt(files, node) ==
    IF node = <<>> THEN "dir"
    ELSE IF \E n \in files : n.node = node
         THEN (CHOOSE n \in files : n.node = node).kind
         ELSE "none"

\* g_mkdir_with_parents from the n-th name on: every missing directory on the
\* way is created with the mode, an existing non-directory or a refused
\* creation ends the walk, and what was created before stays
RECURSIVE MkdirFrom(_, _, _, _, _)
MkdirFrom(files, base, names, n, mode) ==
    IF n > Len(names) THEN [fs |-> files, rc |-> 0]
    ELSE LET node == base \o SubSeq(names, 1, n)
             kind == KindAt(files, node)
         IN  IF kind = "dir" THEN MkdirFrom(files, base, names, n + 1, mode)
             ELSE IF kind = "file" \/ denied THEN [fs |-> files, rc |-> -1]
             ELSE MkdirFrom(files \cup {[node |-> node, kind |-> "dir", mode |-> mode]},
                            base, names, n + 1, mode)

\* a g_mkdir: the directory itself only, which needs its parent to exist
MkdirNoParents(files, pathname, mode) ==
    LET node == Node(pathname)
        parent == SubSeq(node, 1, Len(node) - 1)
    IN  IF pathname = <<>> \/ node = <<>> THEN [fs |-> files, rc |-> -1]
        ELSE IF KindAt(files, node) # "none" \/ KindAt(files, parent) # "dir" \/ denied
             THEN [fs |-> files, rc |-> -1]
        ELSE [fs |-> files \cup {[node |-> node, kind |-> "dir", mode |-> mode]}, rc |-> 0]

\* g_mkdir_with_parents(pathname, mode), called on line 242: the empty
\* pathname is refused (EINVAL)
g_mkdir_with_parents(files, pathname, mode) ==
    IF pathname = <<>> THEN [fs |-> files, rc |-> -1]
    ELSE MkdirFrom(files, IF IsAbsolute(pathname) THEN <<>> ELSE Names(cwd),
                   Names(pathname), 1, mode)

\* util_get_home_dir, lines 40-49
util_get_home_dir == IF homeSet THEN envHOME ELSE gHome

\* lines 226-238 with dir consulted before the '~' test
FullPathDirFirst(pth, d, dNull) ==
    IF pth # <<>> /\ pth[1] = SLASH THEN pth
    ELSE IF ~dNull THEN d \o <<SLASH>> \o pth
    ELSE IF pth # <<>> /\ pth[1] = TILDE
         THEN IF Len(pth) >= 2 /\ pth[2] = SLASH
              THEN gHome \o Tail(pth)
              ELSE gHome \o <<SLASH>> \o Tail(pth)
    ELSE cwd \o <<SLASH>> \o pth

\* lines 226-238: the string util_build_path builds
FullPath(pth, d, dNull) ==
    IF pth # <<>> /\ pth[1] = SLASH THEN pth
    ELSE IF pth # <<>> /\ pth[1] = TILDE
         THEN IF Len(pth) >= 2 /\ pth[2] = SLASH
              THEN gHome \o Tail(pth)
              ELSE gHome \o <<SLASH>> \o Tail(pth)
    ELSE IF ~dNull THEN d \o <<SLASH>> \o pth
    ELSE cwd \o <<SLASH>> \o pth

\* lines 226-238
BuildPath ==
    /\ ppc = "call"
    /\ fullPath' = FullPath(path, dir, dirNull)
    /\ ppc' = "built"
    /\ UNCHANGED <<path, dir, dirNull, envHOME, homeSet, gHome, cwd, denied, fs, fs0, ret>>
    /\ UNCHANGED <<loadVars, tmpVars, searchVars>>

\* lines 240-246: the buffer is cut at its last '/', the directory it then
\* names is created, the '/' is put back and the buffer is returned
MakeParent ==
    /\ ppc = "built"
    /\ LET p == StrRChr(fullPath)
           cut == [fullPath EXCEPT ![p] = NUL]
           made == g_mkdir_with_parents(fs, CStr(cut), Mode0700)
           back == [cut EXCEPT ![p] = SLASH]
       IN  IF p # 0
           THEN /\ fs' = made.fs
                /\ fullPath' = back
                /\ ret' = back
           ELSE /\ fs' = fs
                /\ fullPath' = fullPath
                /\ ret' = fullPath
    /\ ppc' = "done"
    /\ UNCHANGED <<path, dir, dirNull, envHOME, homeSet, gHome, cwd, denied, fs0>>
    /\ UNCHANGED <<loadVars, tmpVars, searchVars>>

\* the directories and files that may exist before the call; the current
\* directory always does
Dir(node) == [node |-> node, kind |-> "dir", mode |-> Mode0755]
File(node) == [node |-> node, kind |-> "file", mode |-> Mode0755]
OptionalNodes ==
    {Dir(<<<<"h">>>>), Dir(<<<<"d">>>>), File(<<<<"a">>>>),
     File(<<<<"w">>, <<"d">>>>), File(<<<<"w">>, <<"a">>>>)}
FileSystems == {{Dir(<<<<"w">>>>)} \cup X : X \in SUBSET OptionalNodes}

PwHome == <<SLASH, "h">>
EnvHome == <<SLASH, "e">>
DirChoices == {<<SLASH, "d">>, <<"d">>, <<SLASH, "a">>}

IdlePath ==
    /\ path = <<>>
    /\ dir = <<>>
    /\ dirNull = TRUE
    /\ envHOME = <<>>
    /\ homeSet = FALSE
    /\ gHome = PwHome
    /\ cwd = <<SLASH, "w">>
    /\ denied = FALSE
    /\ fs = {}
    /\ fs0 = {}
    /\ ppc = "idle"
    /\ fullPath = <<>>
    /\ ret = <<>>


\* ------------------------------------------------- util_create_tmp_file
ContentChars == {"x", "y"}
TmpNames == {"vimb-1", "vimb-2"}

\* a failure test that counts only a write error
WriteErrorOnly(written, length) == written < 0

\* bytes < len, line 201
ShortWrite(written, length) == written < length

IdleTmp ==
    /\ content = <<>>
    /\ file = "null"
    /\ tmpName = ""
    /\ fp = -1
    /\ fdOpen = FALSE
    /\ bytes = 0
    /\ tmpFiles = {}
    /\ tpc = "idle"
    /\ tret = FALSE

\* lines 190-195: g_file_open_tmp creates an empty file under a fresh name, or
\* fails and leaves *file as the caller passed it; freeing a pointer that was
\* never set may crash
OpenTmp ==
    /\ tpc = "call"
    /\ \/ \E name \in TmpNames :
             /\ \A f \in tmpFiles : f.name # name
             /\ tmpFiles' = tmpFiles \cup {[name |-> name, data |-> <<>>]}
             /\ tmpName' = name
             /\ file' = "valid"
             /\ fp' = 3
             /\ fdOpen' = TRUE
             /\ tpc' = "opened"
             /\ tret' = tret
       \/ /\ fp' = -1
          /\ file' = IF file = "null" THEN "null" ELSE "freed"
          /\ tpc' \in IF file = "garbage" THEN {"done", "crashed"} ELSE {"done"}
          /\ tret' = FALSE
          /\ UNCHANGED <<tmpFiles, tmpName, fdOpen>>
    /\ UNCHANGED <<content, bytes>>
    /\ UNCHANGED <<loadVars, pathVars, searchVars>>

\* the file with the first n characters of the content written to it
Written(files, name, text, n) ==
    {f \in files : f.name # name}
        \cup {[name |-> name, data |-> SubSeq(text, 1, IF n < 0 THEN 0 ELSE n)]}

\* lines 197-200: write() stores some or all of the bytes, or fails with -1
Write ==
    /\ tpc = "opened"
    /\ \E n \in -1..Len(content) :
          /\ bytes' = n
          /\ tmpFiles' = Written(tmpFiles, tmpName, content, n)
    /\ tpc' = "written"
    /\ UNCHANGED <<content, file, tmpName, fp, fdOpen, tret>>
    /\ UNCHANGED <<loadVars, pathVars, searchVars>>

\* lines 201-211
Finish ==
    /\ tpc = "written"
    /\ fdOpen' = FALSE
    /\ IF ShortWrite(bytes, Len(content))
       THEN /\ tmpFiles' = {f \in tmpFiles : f.name # tmpName}
            /\ file' = "freed"
            /\ tret' = FALSE
       ELSE /\ tmpFiles' = tmpFiles
            /\ file' = file
            /\ tret' = TRUE
    /\ tpc' = "done"
    /\ UNCHANGED <<content, tmpName, fp, bytes>>
    /\ UNCHANGED <<loadVars, pathVars, searchVars>>


\* ------------------------------------------------------ util_strcasestr
SearchChars == {"a", "A", "b"}

\* toupper in the C locale
LowerCase == <<"a", "b", "c", "d", "e", "f", "g", "h", "i", "j", "k", "l", "m",
               "n", "o", "p", "q", "r", "s", "t", "u", "v", "w", "x", "y", "z">>
UpperCase == <<"A", "B", "C", "D", "E", "F", "G", "H", "I", "J", "K", "L", "M",
               "N", "O", "P", "Q", "R", "S", "T", "U", "V", "W", "X", "Y", "Z">>
toupper(c) ==
    IF \E k \in 1..Len(LowerCase) : LowerCase[k] = c
    THEN UpperCase[CHOOSE k \in 1..Len(LowerCase) : LowerCase[k] = c]
    ELSE c

\* two longer calls, beside the short strings
LongHaystacks ==
    {<<"H", "e", "L", "L", "o", " ", "W", "o", "r", "l", "d">>, <<"a", "b", "c">>}
LongNeedles == {<<"w", "o", "r", "l", "d">>, <<"a", "b", "c", "d">>}

\* a window count that forgets the + 1
WindowsOneShort(hl, nl) == hl - nl

\* strlen(haystack) - nlen + 1 of line 144: the size_t difference wraps and the
\* conversion to int brings it back, so for lengths below 2^31 the value is
\* the signed difference
Windows(hl, nl) == hl - nl + 1

IdleSearch ==
    /\ haystack = <<>>
    /\ needle = <<>>
    /\ nlen = 0
    /\ hlen = 0
    /\ si = 0
    /\ sj = 0
    /\ spc = "idle"
    /\ found = -1
    /\ reads = {}

\* lines 143-146
Start ==
    /\ spc = "call"
    /\ nlen' = Len(needle)
    /\ hlen' = Windows(Len(haystack), Len(needle))
    /\ si' = 0
    /\ sj' = 0
    /\ spc' = "scan"
    /\ UNCHANGED <<haystack, needle, found, reads>>
    /\ UNCHANGED <<loadVars, pathVars, tmpVars>>

\* lines 147-152: one comparison of the inner loop; a mismatch goes on to the
\* next window
Compare ==
    /\ spc = "scan"
    /\ si < hlen
    /\ sj < nlen
    /\ reads' = reads \cup {si + sj}
    /\ LET c1 == IF si + sj < Len(haystack) THEN haystack[si + sj + 1] ELSE NUL
           c2 == needle[sj + 1]
       IN  IF toupper(c1) # toupper(c2)
           THEN si' = si + 1 /\ sj' = 0
           ELSE si' = si /\ sj' = sj + 1
    /\ UNCHANGED <<haystack, needle, nlen, hlen, spc, found>>
    /\ UNCHANGED <<loadVars, pathVars, tmpVars>>

\* line 154: the inner loop ran out, the window matches
Match ==
    /\ spc = "scan"
    /\ si < hlen
    /\ sj = nlen
    /\ found' = si
    /\ spc' = "done"
    /\ UNCHANGED <<haystack, needle, nlen, hlen, si, sj, reads>>
    /\ UNCHANGED <<loadVars, pathVars, tmpVars>>

\* line 158: no window is left
NotFound ==
    /\ spc = "scan"
    /\ si >= hlen
    /\ found' = -1
    /\ spc' = "done"
    /\ UNCHANGED <<haystack, needle, nlen, hlen, si, sj, reads>>
    /\ UNCHANGED <<loadVars, pathVars, tmpVars>>

InitSearch ==
    /\ IdleLoad
    /\ IdlePath
    /\ IdleTmp
    /\ haystack \in StringsUpTo(SearchChars, MaxStr) \cup LongHaystacks
    /\ needle \in StringsUpTo(SearchChars, MaxStr) \cup LongNeedles
    /\ nlen = 0
    /\ hlen = 0
    /\ si = 0
    /\ sj = 0
    /\ spc = "call"
    /\ found = -1
    /\ reads = {}

NextSearch == Start \/ Compare \/ Match \/ NotFound

SpecSearch == InitSearch /\ [][NextSearch]_vars

InitTmp ==
    /\ IdleLoad
    /\ IdlePath
    /\ IdleSearch
    /\ content \in StringsUpTo(ContentChars, MaxContent)
    /\ file \in {"null", "garbage"}
    /\ tmpName = ""
    /\ fp = -1
    /\ fdOpen = FALSE
    /\ bytes = 0
    /\ tmpFiles \in {{}, {[name |-> "vimb-1", data |-> <<"x">>]}}
    /\ tpc = "call"
    /\ tret = FALSE

NextTmp == OpenTmp \/ Write \/ Finish

SpecTmp == InitTmp /\ [][NextTmp]_vars

\* g_get_home_dir() is the platform's home directory; a GLib that consults
\* $HOME itself returns $HOME when it is set
InitPath ==
    /\ IdleLoad
    /\ IdleTmp
    /\ IdleSearch
    /\ path \in StringsUpTo(PathChars, MaxPathLen)
    /\ dirNull \in BOOLEAN
    /\ dir \in IF dirNull THEN {<<>>} ELSE DirChoices
    /\ homeSet \in BOOLEAN
    /\ envHOME = IF homeSet THEN EnvHome ELSE <<>>
    /\ gHome \in IF homeSet THEN {PwHome, EnvHome} ELSE {PwHome}
    /\ cwd = <<SLASH, "w">>
    /\ denied \in BOOLEAN
    /\ fs \in FileSystems
    /\ fs0 = fs
    /\ ppc = "call"
    /\ fullPath = <<>>
    /\ ret = <<>>

NextPath == BuildPath \/ MakeParent

SpecPath == InitPath /\ [][NextPath]_vars

InitLoad ==
    /\ IdlePath
    /\ IdleTmp
    /\ IdleSearch
    /\ fileKind \in {"missing", "unreadable", "regular"}
    /\ fileContent \in StringsUpTo(FileChars, MaxLen)
    /\ fileKind # "regular" => fileContent = <<>>
    /\ nullKeys \in NullKeySets
    /\ eq \in Relations
    /\ InitLoadLocals

NextLoad == Enter \/ Iterate \/ Leave \/ EditAndReload

SpecLoad == InitLoad /\ [][NextLoad]_vars

\* ------------------------------------------------ claims about the loader
Symmetric(r) == \A p \in r : <<p[2], p[1]>> \in r
Transitive(r) == \A p \in r : \A q \in r : p[2] = q[1] => <<p[1], q[2]>> \in r
Reflexive(r) == \A c \in Letters : <<c, c>> \in r
IsEquivalence(r) == Reflexive(r) /\ Symmetric(r) /\ Transitive(r)

\* no two distinct entries of the list are equal under unique_func
UniqueList(list) ==
    \A p \in 1..Len(list) : \A q \in 1..Len(list) :
        p # q => unique_func(list[p], list[q]) # 0

\* the members of a set of numbers, in ascending order
RECURSIVE Ascending(_)
Ascending(S) ==
    IF S = {} THEN <<>>
    ELSE LET m == CHOOSE x \in S : \A y \in S : x <= y
         IN  <<m>> \o Ascending(S \ {m})

\* the lines of the file as it is on disk, before any stripping
RawLines == StrSplit(fileContent)

\* a line has text when one of its characters is not whitespace
HasText(line) == \E k \in 1..Len(line) : ~IsSpace(line[k])

\* the lines (numbered from 1) for which func returns a value
Parsed == {k \in 1..Len(RawLines) : HasText(RawLines[k]) /\ ~ParseIsNull(StrStrip(RawLines[k]))}

SameClass(j, k) == <<Key(StrStrip(RawLines[j])), Key(StrStrip(RawLines[k]))>> \in eq

\* the last parsed line of each equality class
LastOfClass == {k \in Parsed : \A m \in Parsed : m > k => ~SameClass(m, k)}

LastSeenList ==
    LET order == Ascending(LastOfClass)
    IN  [n \in 1..Len(order) |-> ParseValue(StrStrip(RawLines[order[n]]), order[n] - 1)]

\* C1 as stated: under any relation the caller supplies as equality, the list
\* under construction and the list returned never hold two distinct entries
\* that the relation reports as equal.
C1_UniqueAnyRelation == UniqueList(gl)

\* C1 amended: when the caller's equality is symmetric and transitive (any
\* equivalence relation is), the list under construction after each line and
\* the list returned hold no two distinct entries that are equal.
C1_UniqueUnderEquivalence == (Symmetric(eq) /\ Transitive(eq)) => UniqueList(gl)

\* a returned list of two entries from which a duplicate was evicted
C1_Witness ==
    /\ lpc = "done"
    /\ IsEquivalence(eq)
    /\ freed # {}
    /\ Len(gl) = 2

\* C2: when equals is an equivalence relation, the returned list holds, for
\* each equality class with a parsed line, exactly the value parsed from the
\* class's last such line, in ascending order of those lines.
C2_LastSeenOrder == (lpc = "done" /\ IsEquivalence(eq)) => gl = LastSeenList

\* lines a, b, a under string equality return [b, a]
C2_Witness ==
    /\ lpc = "done"
    /\ run = 1
    /\ fileContent = <<"a", NL, "b", NL, "a">>
    /\ eq = {<<"a", "a">>, <<"b", "b">>}
    /\ nullKeys = {}
    /\ gl = <<ParseValue(<<"b">>, 1), ParseValue(<<"a">>, 2)>>
    /\ freed = {0}

\* the indices of the lines func was called for, in call order
CallIndices == [n \in 1..Len(calls) |-> calls[n][1]]

\* C4: func is called exactly once, in file order, for each line that has text
\* and never for a line that is blank after trimming; and a file changed only
\* by a final newline or by added blank lines loads to the same list.
C4_BlankLinesSkipped ==
    /\ lpc # "call" =>
           CallIndices = Ascending({k - 1 : k \in {m \in 1..i : HasText(RawLines[m])}})
    /\ (lpc = "done" /\ run = 2) => Data(gl) = prevData

\* the file "  \n\na\n", reached by adding the final newline, loads to the one
\* entry for a, as it did without the newline
C4_Witness ==
    /\ lpc = "done"
    /\ run = 2
    /\ fileContent = <<SP, SP, NL, NL, "a", NL>>
    /\ Data(gl) = <<<<"a">>>>
    /\ prevData = <<<<"a">>>>
    /\ Len(calls) = 1

\* C7: when util_file_to_unique_list has returned, the line array that
\* util_get_lines allocated has been released.
C7_LinesReleased == lpc = "done" => ~linesHeld

\* ----------------------------------------- claims about util_build_path
StartsWith(s, c) == s # <<>> /\ s[1] = c
SecondIs(s, c) == Len(s) >= 2 /\ s[2] = c

\* the directory a returned path lies in: what precedes its last '/', the
\* root when nothing does
ParentNode(r) ==
    LET p == StrRChr(r)
    IN  IF p = 0 THEN Names(cwd)
        ELSE IF p = 1 THEN <<>>
        ELSE Node(SubSeq(r, 1, p - 1))

\* an existing non-directory lies on the way to the node
Blocked(files, node) ==
    \E n \in 1..Len(node) : KindAt(files, SubSeq(node, 1, n)) = "file"

IsPrefix(a, b) == Len(a) <= Len(b) /\ SubSeq(b, 1, Len(a)) = a

\* C3: the returned string is path itself for an absolute path; the home
\* directory followed by what follows '~', a '/' added between them only when
\* none follows the '~'; dir, '/' and path when neither applies and dir is
\* given; the current directory, '/' and path otherwise.  The cut at the last
\* '/' leaves no trace in the returned string.
C3_ResultAndPrecedence ==
    ppc = "done" =>
        /\ StartsWith(path, SLASH) => ret = path
        /\ (StartsWith(path, TILDE) /\ SecondIs(path, SLASH)) => ret = gHome \o Tail(path)
        /\ (StartsWith(path, TILDE) /\ ~SecondIs(path, SLASH)) =>
               ret = gHome \o <<SLASH>> \o Tail(path)
        /\ (~StartsWith(path, SLASH) /\ ~StartsWith(path, TILDE) /\ ~dirNull) =>
               ret = dir \o <<SLASH>> \o path
        /\ (~StartsWith(path, SLASH) /\ ~StartsWith(path, TILDE) /\ dirNull) =>
               ret = cwd \o <<SLASH>> \o path

\* "~a" with a base directory given resolves under the home directory
C3_Witness ==
    /\ ppc = "done"
    /\ path = <<TILDE, "a">>
    /\ dir = <<SLASH, "d">>
    /\ ~dirNull
    /\ ret = <<SLASH, "h", SLASH, "a">>

C6_AlwaysAbsolute == ppc = "done" => IsAbsolute(ret)

\* C9: the home directory put in place of a leading '~' is the one
\* util_get_home_dir yields: $HOME when it is set.
C9_HomeFromEnvironment ==
    (ppc = "done" /\ StartsWith(path, TILDE)) =>
        ret = util_get_home_dir
              \o (IF SecondIs(path, SLASH) THEN <<>> ELSE <<SLASH>>) \o Tail(path)

\* ------------------------------------ claims about util_create_tmp_file
\* C8: success is reported only when write() returned the full length of the
\* content; after a short write or a write error the descriptor is closed, no
\* file is left under the name that was created, the name is freed and
\* failure is reported.
C8_ShortWriteCleanup ==
    tpc = "done" =>
        /\ tret => (bytes = Len(content) /\ file = "valid" /\ ~fdOpen)
        /\ (fp # -1 /\ bytes < Len(content)) =>
               /\ ~tret
               /\ ~fdOpen
               /\ file = "freed"
               /\ \A f \in tmpFiles : f.name # tmpName

\* a call that wrote a part of its content and reports failure
C8_Witness ==
    /\ tpc = "done"
    /\ fp # -1
    /\ bytes > 0
    /\ bytes < Len(content)
    /\ ~tret

\* ----------------------------------------- claims about util_strcasestr
\* the needle matches the haystack at offset k, case folded
MatchesAt(k) ==
    /\ k + Len(needle) <= Len(haystack)
    /\ \A m \in 1..Len(needle) : toupper(haystack[k + m]) = toupper(needle[m])

MatchOffsets == {k \in 0..Len(haystack) : MatchesAt(k)}

\* C10: the result is the smallest offset at which the needle matches the
\* haystack under upper-case folding, or not-found when there is none; every
\* haystack index read lies inside the haystack; a needle longer than the
\* haystack gives not-found without a read.
C10_FirstMatchInBounds ==
    /\ \A r \in reads : r >= 0 /\ r < Len(haystack)
    /\ Len(needle) > Len(haystack) => reads = {}
    /\ spc = "done" =>
           IF MatchOffsets = {} THEN found = -1
           ELSE found \in MatchOffsets /\ \A k \in MatchOffsets : found <= k

\* "world" is found in "HeLLo World" at offset 6
C10_Witness ==
    /\ spc = "done"
    /\ haystack = <<"H", "e", "L", "L", "o", " ", "W", "o", "r", "l", "d">>
    /\ needle = <<"w", "o", "r", "l", "d">>
    /\ found = 6
    /\ reads = 0..10

====
